---- MODULE Spec2Model ----
(***************************************************************************)
(* A model of cs231n/classifiers/rnn.py: the CaptioningRNN class, its      *)
(* constructor, loss(features, captions) and sample(features, max_length). *)
(*                                                                         *)
(* Real-valued tensors are modelled by their numpy shape (a sequence of    *)
(* naturals) together with the symbolic term that says what they were      *)
(* computed from; integer tensors (captions, emitted tokens) are modelled  *)
(* by their contents.  The layer functions imported from cs231n.layers and *)
(* cs231n.rnn_layers are modelled from their specification.                *)
(***************************************************************************)
EXTENDS Integers, Sequences, FiniteSets, TLC

VARIABLES obj, init_args, init_err, self, lossCall,
          spc, features, max_length, captions, sample_h0, capt, word_embed, next_h, t,
          steps, serr

vars == <<obj, init_args, init_err, self, lossCall,
          spc, features, max_length, captions, sample_h0, capt, word_embed, next_h, t,
          steps, serr>>

sampleVars == <<spc, features, max_length, captions, sample_h0, capt, word_embed,
                next_h, t, steps, serr>>

\* ------------------------------------------------------------------------
\* Bounds of the model
\* ------------------------------------------------------------------------
MaxN == 2
MaxT == 2
MaxV == 3
MaxDim == 2
MaxLen == 2

\* Each dimension takes the degenerate value 1 and one generic value; the
\* generic values of D, W and H are pairwise different.
InputDims == {1, MaxDim + 2}
WordvecDims == {1, MaxDim}
HiddenDims == {1, MaxDim + 1}
BatchSizes == 1..MaxN
CaptionLengths == 2..MaxT
MaxLengths == 0..MaxLen

\* ------------------------------------------------------------------------
\* Python and numpy values
\* ------------------------------------------------------------------------
\* Python's None where an integer is expected (dict.get(key, None)).
None == 0 - 1
\* A tensor slot holding None (dict.fromkeys(self.params)).
NoneT == <<0 - 1>>
\* The shape of an operation that raised a shape mismatch.
Err == <<0 - 2>>

NoExc == [type |-> "", line |-> 0]
Exc(type, line) == [type |-> type, line |-> line]

Max2(a, b) == IF a >= b THEN a ELSE b

\* ndarray.shape of np.dot(a, b) for a 0-, 1- or 2-dimensional a and a
\* 2-dimensional b.
Dot(a, b) ==
    IF a = Err \/ b = Err THEN Err
    ELSE IF Len(a) = 0 THEN b
    ELSE IF Len(a) = 1 THEN (IF a[1] = b[1] THEN <<b[2]>> ELSE Err)
    ELSE IF a[2] = b[1] THEN <<a[1], b[2]>> ELSE Err

PadLeft(s, n) == [i \in 1..n |-> IF i <= n - Len(s) THEN 1 ELSE s[i - (n - Len(s))]]

\* numpy broadcasting of the shapes of the two operands of +.
Broadcast(a, b) ==
    IF a = Err \/ b = Err THEN Err
    ELSE LET n == Max2(Len(a), Len(b))
             pa == PadLeft(a, n)
             pb == PadLeft(b, n)
         IN IF \A i \in 1..n : pa[i] = pb[i] \/ pa[i] = 1 \/ pb[i] = 1
            THEN [i \in 1..n |-> IF pa[i] = 1 THEN pb[i] ELSE pa[i]]
            ELSE Err

IsNotOne(d) == d # 1

\* np.squeeze(a).shape: every axis of length one is removed.
SqueezeShape(s) == SelectSeq(s, IsNotOne)

\* The % operator on a format string and one non-tuple argument.  A format is
\* a sequence of pieces; the piece "%s" is a conversion specifier.
IsSpec(piece) == piece = "%s"

PercentFormat(fmt, arg) ==
    IF Len(SelectSeq(fmt, IsSpec)) = 1
    THEN [ok |-> TRUE, text |-> [i \in 1..Len(fmt) |-> IF fmt[i] = "%s" THEN arg ELSE fmt[i]]]
    ELSE [ok |-> FALSE, text |-> <<>>]

\* raise E(fmt % arg): the argument is evaluated first, so a failing % raises
\* its TypeError in place of E.
RaiseFormatted(type, fmt, arg, line) ==
    IF PercentFormat(fmt, arg).ok THEN Exc(type, line) ELSE Exc("TypeError", line)

InvalidCellFmt == <<"Invalid cell_type \"", "%s", "\"">>
NotImplementedFmt == <<"s not implemented">>

\* ------------------------------------------------------------------------
\* Vocabularies
\* ------------------------------------------------------------------------
WordOrder == <<"<NULL>", "<START>", "<END>", "dog">>

Rank(w) == CHOOSE i \in 1..Len(WordOrder) : WordOrder[i] = w

\* 0-based position of w among the words of S, in WordOrder.
IndexIn(S, w) == Cardinality({v \in S : Rank(v) < Rank(w)})

\* word_to_idx dictionaries: a set of at most MaxV words numbered in
\* WordOrder or in its reverse, so that <NULL> is the first or the last index.
Vocabularies ==
    LET Words == {WordOrder[i] : i \in 1..Len(WordOrder)}
        Sets == {S \in SUBSET Words : Cardinality(S) >= 1 /\ Cardinality(S) <= MaxV}
    IN UNION {{[w \in S |-> IndexIn(S, w)],
               [w \in S |-> Cardinality(S) - 1 - IndexIn(S, w)]} : S \in Sets}

\* dict.get(key, None)
Get(d, key) == IF key \in DOMAIN d THEN d[key] ELSE None

\* Token values used for caption entries and arg-max outcomes: the first and
\* the last index of a vocabulary of size V.
TokenPool(V) == {0, V - 1} \cap (0..(V - 1))

\* ------------------------------------------------------------------------
\* CaptioningRNN.__init__
\* ------------------------------------------------------------------------
ParamKeys == {"W_embed", "W_proj", "b_proj", "Wx", "Wh", "b", "W_vocab", "b_vocab"}

CellTypes == {"rnn", "lstm", "gru"}

ValidCellTypes == {"rnn", "lstm"}

\* Mutant: the recurrent parameters of an 'lstm' model get the width of the
\* vanilla cell.
dim_mul_one(ct) == [lstm |-> 1, rnn |-> 1][ct]

dim_mul(ct) == [lstm |-> 4, rnn |-> 1][ct]

NoParams == [k \in {} |-> <<>>]

NoSelf == [has_params |-> FALSE, params |-> NoParams, cell_type |-> "",
           vocab_size |-> 0, hidden_dim |-> 0,
           null |-> None, start |-> None, end |-> None]

InitParams(V, D, W, H, ct) ==
    [k \in ParamKeys |->
        CASE k = "W_embed" -> <<V, W>>
          [] k = "W_proj"  -> <<D, H>>
          [] k = "b_proj"  -> <<H>>
          [] k = "Wx"      -> <<W, dim_mul(ct) * H>>
          [] k = "Wh"      -> <<H, dim_mul(ct) * H>>
          [] k = "b"       -> <<dim_mul(ct) * H>>
          [] k = "W_vocab" -> <<H, V>>
          [] k = "b_vocab" -> <<V>>]

\* Mutant: the cell type is checked after the parameters are allocated.
RunInit_late(word_to_idx, input_dim, wordvec_dim, hidden_dim, ct) ==
    LET V == Cardinality(DOMAIN word_to_idx)
        s0 == [NoSelf EXCEPT !.cell_type = ct, !.has_params = TRUE,
                             !.vocab_size = V, !.hidden_dim = hidden_dim]
    IN IF "<NULL>" \notin DOMAIN word_to_idx
       THEN [exc |-> Exc("KeyError", 48), self |-> s0]
       ELSE IF ct \notin ValidCellTypes
       THEN [exc |-> RaiseFormatted("ValueError", InvalidCellFmt, ct, 37),
             self |-> [s0 EXCEPT !.params = [k \in {"W_embed", "W_proj", "b_proj"} |->
                                               InitParams(V, input_dim, wordvec_dim,
                                                          hidden_dim, "rnn")[k]]]]
       ELSE [exc |-> NoExc,
             self |-> [s0 EXCEPT !.null = word_to_idx["<NULL>"],
                                 !.start = Get(word_to_idx, "<START>"),
                                 !.end = Get(word_to_idx, "<END>"),
                                 !.params = InitParams(V, input_dim, wordvec_dim,
                                                       hidden_dim, ct)]]

\* The result of running __init__: the exception raised (or none) and the
\* attributes the object holds at that moment.
RunInit(word_to_idx, input_dim, wordvec_dim, hidden_dim, ct) ==
    IF ct \notin ValidCellTypes
    THEN [exc |-> RaiseFormatted("ValueError", InvalidCellFmt, ct, 37), self |-> NoSelf]
    ELSE LET V == Cardinality(DOMAIN word_to_idx)
             s0 == [NoSelf EXCEPT !.cell_type = ct, !.has_params = TRUE,
                                  !.vocab_size = V, !.hidden_dim = hidden_dim]
         IN IF "<NULL>" \notin DOMAIN word_to_idx
            THEN [exc |-> Exc("KeyError", 48), self |-> s0]
            ELSE [exc |-> NoExc,
                  self |-> [s0 EXCEPT !.null = word_to_idx["<NULL>"],
                                      !.start = Get(word_to_idx, "<START>"),
                                      !.end = Get(word_to_idx, "<END>"),
                                      !.params = InitParams(V, input_dim, wordvec_dim,
                                                            hidden_dim, ct)]]

\* ------------------------------------------------------------------------
\* Layer functions of cs231n.layers and cs231n.rnn_layers
\* ------------------------------------------------------------------------
NoCache == [producer |-> ""]

\* out[n, t, :] = W[x[n, t], :]; the cache keeps the indices and the table.
word_embedding_forward(x, W) ==
    [out |-> [shape |-> x.shape \o <<W[2]>>, idx |-> x.vals],
     cache |-> [producer |-> "word_embedding_forward", x |-> x.shape, W |-> W]]

\* dW has the shape of the table the forward pass gathered from.
word_embedding_backward(dout, cache) ==
    IF cache.producer = "word_embedding_forward" THEN cache.W ELSE Err

\* Shape of tanh(x.Wx + prev_h.Wh + b).
StepShape(x, prev_h, Wx, Wh, b) ==
    Broadcast(Broadcast(Dot(x, Wx), Dot(prev_h, Wh)), b)

\* One time step of the vanilla cell: the new hidden state is a function of
\* the step's input and of the previous hidden state, kept as the term
\* hist = the inputs consumed so far, oldest first, on top of the initial
\* state.
rnn_step_forward(x, prev_h, Wx, Wh, b) ==
    [shape |-> StepShape(x.shape, prev_h.shape, Wx, Wh, b),
     hist |-> Append(prev_h.hist, x.idx)]

\* The cell unrolled over the T steps of x (N, T, D) from h0 (N, H).
rnn_forward(x, h0, Wx, Wh, b) ==
    LET N == x[1]
        T == x[2]
        D == x[3]
        H == h0[2]
        ok == Len(x) = 3 /\ Len(h0) = 2 /\ StepShape(<<N, D>>, h0, Wx, Wh, b) = <<N, H>>
    IN [h |-> IF ok THEN <<N, T, H>> ELSE Err,
        cache |-> [producer |-> "rnn_forward", x |-> x, h0 |-> h0,
                   Wx |-> Wx, Wh |-> Wh, b |-> b]]

rnn_backward(dh, cache) ==
    IF cache.producer = "rnn_forward" /\ dh # Err
    THEN [dx |-> cache.x, dh0 |-> cache.h0, dWx |-> cache.Wx, dWh |-> cache.Wh,
          db |-> cache.b]
    ELSE [dx |-> Err, dh0 |-> Err, dWx |-> Err, dWh |-> Err, db |-> Err]

\* x (N, T, D) is treated as (N*T, D), multiplied by w (D, M), b (M,) is
\* added and the result is reshaped to (N, T, M).
temporal_affine_forward(x, w, b) ==
    LET ok == x # Err /\ Len(x) = 3 /\ Dot(<<x[1] * x[2], x[3]>>, w) = <<x[1] * x[2], b[1]>>
    IN [out |-> IF ok THEN <<x[1], x[2], b[1]>> ELSE Err,
        cache |-> [producer |-> "temporal_affine_forward", x |-> x, w |-> w, b |-> b]]

temporal_affine_backward(dout, cache) ==
    IF cache.producer = "temporal_affine_forward" /\ dout # Err
    THEN [dx |-> cache.x, dw |-> cache.w, db |-> cache.b]
    ELSE [dx |-> Err, dw |-> Err, db |-> Err]

\* The masked cross-entropy of scores x (N, T, V) against targets y (N, T):
\* the gradient has the shape of x.
temporal_softmax_loss(x, y, mask) ==
    LET ok == x # Err /\ Len(x) = 3 /\ Len(y) = x[1] /\ Len(mask) = x[1]
              /\ \A n \in 1..Len(y) : Len(y[n]) = x[2] /\ Len(mask[n]) = x[2]
    IN [dx |-> IF ok THEN x ELSE Err]

\* ------------------------------------------------------------------------
\* CaptioningRNN.loss
\* ------------------------------------------------------------------------
\* captions[:, :-1]
AllButLast(m) == [n \in 1..Len(m) |-> SubSeq(m[n], 1, Len(m[n]) - 1)]

\* Mutant: the targets are cut like the inputs, without the one-step offset.
AllButFirst_no_offset(m) == [n \in 1..Len(m) |-> SubSeq(m[n], 1, Len(m[n]) - 1)]

\* captions[:, 1:]
AllButFirst(m) == [n \in 1..Len(m) |-> SubSeq(m[n], 2, Len(m[n]))]

\* captions_out != self._null
NotNullMask(m, null) == [n \in 1..Len(m) |-> [j \in 1..Len(m[n]) |-> m[n][j] # null]]

\* Mutant: the sum runs over axis 1.
SumAxis0_axis1(a) == IF a = Err THEN Err ELSE <<a[1]>>

\* np.sum(a, axis=0).shape
SumAxis0(a) == IF a = Err THEN Err ELSE Tail(a)

\* a.T.shape for a 2-dimensional a
Transpose(a) == IF a = Err THEN Err ELSE <<a[2], a[1]>>

LogEntry(dir, layer, made, used) ==
    [dir |-> dir, layer |-> layer, made |-> made.producer, used |-> used.producer]

NoLoss == [status |-> "none", exc |-> NoExc, captions |-> <<>>,
           captions_in |-> <<>>, captions_out |-> <<>>, mask |-> <<>>,
           embed_x |-> <<>>, softmax_y |-> <<>>, softmax_mask |-> <<>>,
           grads |-> NoParams, oplog |-> <<>>]

\* selection of the recurrent layer of the forward pass (lines 135-138)
SelectForward(ct, x, h0, Wx, Wh, b) ==
    IF ct = "rnn"
    THEN [exc |-> NoExc, r |-> rnn_forward(x, h0, Wx, Wh, b)]
    ELSE [exc |-> RaiseFormatted("NotImplementedError", NotImplementedFmt, ct, 138),
          r |-> [h |-> Err, cache |-> NoCache]]

\* selection of the recurrent layer of the backward pass (lines 159-162)
SelectBackward(ct, dh, rnn_cache) ==
    IF ct = "rnn"
    THEN [exc |-> NoExc, r |-> rnn_backward(dh, rnn_cache)]
    ELSE [exc |-> RaiseFormatted("NotImplementedError", NotImplementedFmt, ct, 162),
          r |-> rnn_backward(Err, NoCache)]

\* Mutant: the embedding layer's backward operation is left out and its
\* gradient slot keeps the value dict.fromkeys gave it.
LossBackward_no_embed(s, feats, dscores, word_embedding_cache, rnn_cache, scores_cache) ==
    LET grads0 == [k \in DOMAIN s.params |-> NoneT]
        ab == temporal_affine_backward(dscores, scores_cache)
        sel == SelectBackward(s.cell_type, ab.dx, rnn_cache)
        rb == sel.r
        log1 == <<LogEntry("backward", "vocab", NoCache, scores_cache)>>
        log2 == Append(log1, LogEntry("backward", "rnn", NoCache, rnn_cache))
        log4 == Append(log2, LogEntry("backward", "proj", NoCache, NoCache))
    IN IF sel.exc # NoExc
       THEN [exc |-> sel.exc, grads |-> grads0, oplog |-> log1]
       ELSE [exc |-> NoExc,
             grads |-> [grads0 EXCEPT !["W_proj"] = Dot(Transpose(feats), rb.dh0),
                                      !["b_proj"] = SumAxis0(rb.dh0),
                                      !["Wx"] = rb.dWx, !["Wh"] = rb.dWh, !["b"] = rb.db,
                                      !["W_vocab"] = ab.dw, !["b_vocab"] = ab.db],
             oplog |-> log4]

\* The backward pass (lines 155-176): the gradient mapping and the backward
\* operations in the order they run, each with the cache it was handed.
LossBackward(s, feats, dscores, word_embedding_cache, rnn_cache, scores_cache) ==
    LET grads0 == [k \in DOMAIN s.params |-> NoneT]
        ab == temporal_affine_backward(dscores, scores_cache)
        sel == SelectBackward(s.cell_type, ab.dx, rnn_cache)
        rb == sel.r
        dW_embed == word_embedding_backward(rb.dx, word_embedding_cache)
        db_proj == SumAxis0(rb.dh0)
        dW_proj == Dot(Transpose(feats), rb.dh0)
        log1 == <<LogEntry("backward", "vocab", NoCache, scores_cache)>>
        log2 == Append(log1, LogEntry("backward", "rnn", NoCache, rnn_cache))
        log3 == Append(log2, LogEntry("backward", "embed", NoCache, word_embedding_cache))
        log4 == Append(log3, LogEntry("backward", "proj", NoCache, NoCache))
    IN IF sel.exc # NoExc
       THEN [exc |-> sel.exc, grads |-> grads0, oplog |-> log1]
       ELSE [exc |-> NoExc,
             grads |-> [grads0 EXCEPT !["W_proj"] = dW_proj, !["b_proj"] = db_proj,
                                      !["W_embed"] = dW_embed, !["Wx"] = rb.dWx,
                                      !["Wh"] = rb.dWh, !["b"] = rb.db,
                                      !["W_vocab"] = ab.dw, !["b_vocab"] = ab.db],
             oplog |-> log4]

\* loss(features, captions) on a features batch of shape feats and the
\* caption matrix caps.
RunLoss(s, feats, caps) ==
    LET p == s.params
        captions_in == AllButLast(caps)
        captions_out == AllButFirst(caps)
        mask == NotNullMask(captions_out, s.null)
        h0 == Broadcast(Dot(feats, p["W_proj"]), p["b_proj"])
        emb == word_embedding_forward(
                   [shape |-> <<Len(captions_in), Len(captions_in[1])>>,
                    vals |-> captions_in], p["W_embed"])
        sel == SelectForward(s.cell_type, emb.out.shape, h0, p["Wx"], p["Wh"], p["b"])
        rf == sel.r
        af == temporal_affine_forward(rf.h, p["W_vocab"], p["b_vocab"])
        sm == temporal_softmax_loss(af.out, captions_out, mask)
        bw == LossBackward(s, feats, sm.dx, emb.cache, rf.cache, af.cache)
        flog2 == <<LogEntry("forward", "proj", NoCache, NoCache),
                   LogEntry("forward", "embed", emb.cache, NoCache)>>
        flog5 == flog2 \o <<LogEntry("forward", "rnn", rf.cache, NoCache),
                            LogEntry("forward", "vocab", af.cache, NoCache),
                            LogEntry("forward", "softmax", NoCache, NoCache)>>
        begun == [NoLoss EXCEPT !.captions = caps, !.captions_in = captions_in,
                                !.captions_out = captions_out, !.mask = mask,
                                !.embed_x = emb.out.idx]
    IN IF sel.exc # NoExc
       THEN [begun EXCEPT !.status = "raised", !.exc = sel.exc, !.oplog = flog2]
       ELSE LET fwd == [begun EXCEPT !.softmax_y = captions_out, !.softmax_mask = mask]
            IN IF sm.dx = Err
               THEN [fwd EXCEPT !.status = "raised", !.exc = Exc("ValueError", 147),
                                !.oplog = flog5]
               ELSE IF bw.exc # NoExc
               THEN [fwd EXCEPT !.status = "raised", !.exc = bw.exc,
                                !.oplog = flog5 \o bw.oplog]
               ELSE IF \E k \in DOMAIN bw.grads : bw.grads[k] = Err
               THEN [fwd EXCEPT !.status = "raised", !.exc = Exc("ValueError", 167),
                                !.oplog = flog5 \o bw.oplog]
               ELSE [fwd EXCEPT !.status = "returned", !.grads = bw.grads,
                                !.oplog = flog5 \o bw.oplog]


NoArgs == [word_to_idx |-> NoParams, cell_type |-> ""]

\* Tensor variables of sample() before they are assigned.
NoIndex == [shape |-> Err, vals |-> <<>>]
NoEmbed == [shape |-> Err, idx |-> <<>>]
NoHidden == [shape |-> Err, hist |-> <<>>]

Init ==
    /\ obj = "none"
    /\ init_args = NoArgs
    /\ init_err = NoExc
    /\ self = NoSelf
    /\ lossCall = NoLoss
    /\ spc = "idle"
    /\ features = <<>>
    /\ max_length = 0
    /\ captions = <<>>
    /\ sample_h0 = NoHidden
    /\ capt = NoIndex
    /\ word_embed = NoEmbed
    /\ next_h = NoHidden
    /\ t = 0
    /\ steps = <<>>
    /\ serr = NoExc

Construct(word_to_idx, input_dim, wordvec_dim, hidden_dim, ct) ==
    /\ init_args' = [word_to_idx |-> word_to_idx, cell_type |-> ct]
    /\ LET r == RunInit(word_to_idx, input_dim, wordvec_dim, hidden_dim, ct)
       IN /\ init_err' = r.exc
          /\ self' = r.self
          /\ obj' = IF r.exc = NoExc THEN "ok" ELSE "failed"
    /\ UNCHANGED <<lossCall, sampleVars>>

SampleReset ==
    /\ spc' = "idle"
    /\ features' = <<>>
    /\ max_length' = 0
    /\ captions' = <<>>
    /\ sample_h0' = NoHidden
    /\ capt' = NoIndex
    /\ word_embed' = NoEmbed
    /\ next_h' = NoHidden
    /\ t' = 0
    /\ steps' = <<>>
    /\ serr' = NoExc

\* No call is in progress and the result of the last one has been dropped.
Idle == spc = "idle" /\ lossCall.status = "none"

\* Caption batches of shape (N, T) over the token pool of the vocabulary.
CaptionBatches(N, T, V) == [1..N -> [1..T -> TokenPool(V)]]

Loss(N, caps) ==
    /\ lossCall' = RunLoss(self, <<N, self.params["W_proj"][1]>>, caps)
    /\ SampleReset
    /\ UNCHANGED <<obj, init_args, init_err, self>>

\* ------------------------------------------------------------------------
\* CaptioningRNN.sample
\* ------------------------------------------------------------------------
\* v * np.ones((N, L), dtype=np.int32) for an integer v
FullMatrix(v, N, L) == [n \in 1..N |-> [j \in 1..L |-> v]]

\* np.squeeze of an embedding output: the axes of length one go, the rows
\* gathered stay the same, one token per example.
Squeeze(e) ==
    [shape |-> SqueezeShape(e.shape),
     idx |-> IF Len(e.shape) = 3 THEN [n \in 1..Len(e.idx) |-> e.idx[n][1]] ELSE e.idx]

\* next_h[:, np.newaxis, :]
Newaxis(s) == IF s = Err \/ Len(s) # 2 THEN Err ELSE <<s[1], 1, s[2]>>

\* The values np.squeeze(np.argmax(score, axis=2)) can take for a score of
\* shape (N, 1, V): one index below V per example.
ArgmaxOutcomes(score) == [1..score[1] -> TokenPool(score[3])]

\* captions[:, j] = col, for the 0-based column j
SetColumn(m, j, col) == [n \in 1..Len(m) |-> [m[n] EXCEPT ![j + 1] = col[n]]]

\* Mutant: a missing start index is taken as index 0.
SeedTokens_none_as_zero(start, N) ==
    [ok |-> TRUE,
     capt |-> [shape |-> <<N, 1>>,
               vals |-> FullMatrix(IF start = None THEN 0 ELSE start, N, 1)]]

\* self._start * np.ones((N, 1), dtype=np.int32): None times an array is a
\* TypeError.
SeedTokens(start, N) ==
    IF start = None
    THEN [ok |-> FALSE, capt |-> NoIndex]
    ELSE [ok |-> TRUE, capt |-> [shape |-> <<N, 1>>, vals |-> FullMatrix(start, N, 1)]]

\* Mutant: every step starts from the initial hidden state.
PrevHidden_h0(first) == sample_h0

\* The hidden state the recurrent step of sample() starts from: the first
\* step (line 224) uses h0 (sample_h0), a step of the loop (line 232) uses next_h.
PrevHidden(first) == IF first THEN sample_h0 ELSE next_h

\* Mutant: the loop ends once every example has emitted <END> (the early
\* return the source keeps commented out).
LoopGoesOn_stop_on_end ==
    /\ t < Len(captions[1])
    /\ ~(self.end # None /\ \A n \in 1..Len(captions) : captions[n][t] = self.end)

\* The loop of sample() goes on while t < len(captions[0]).
LoopGoesOn == t < Len(captions[1])

SampleRaise(type, line) ==
    /\ spc' = "raised"
    /\ serr' = Exc(type, line)

\* Lines 205-221: the output matrix, the initial hidden state, the seed token
\* and its embedding.
SampleCall(N, ml) ==
    /\ features' = <<N, self.params["W_proj"][1]>>
    /\ max_length' = ml
    /\ captions' = FullMatrix(self.null, N, ml)
    /\ sample_h0' = [shape |-> Broadcast(Dot(features', self.params["W_proj"]),
                                  self.params["b_proj"]),
              hist |-> <<>>]
    /\ IF ~SeedTokens(self.start, N).ok
       THEN /\ SampleRaise("TypeError", 220)
            /\ UNCHANGED <<capt, word_embed>>
       ELSE /\ capt' = SeedTokens(self.start, N).capt
            /\ word_embed' = word_embedding_forward(capt', self.params["W_embed"]).out
            /\ spc' = "seeded"
            /\ UNCHANGED serr
    /\ UNCHANGED <<obj, init_args, init_err, self, lossCall, next_h, t, steps>>

\* One decoding step: lines 224-228 (first, column 0) or one iteration of the
\* loop, lines 231-240 (column t).
DecodeStep(first, col) ==
    LET p == self.params
        x == Squeeze(word_embed)
        prev == PrevHidden(first)
        nh == rnn_step_forward(x, prev, p["Wx"], p["Wh"], p["b"])
        score == temporal_affine_forward(Newaxis(nh.shape), p["W_vocab"], p["b_vocab"]).out
    IN IF nh.shape = Err
       THEN /\ SampleRaise("ValueError", IF first THEN 224 ELSE 232)
            /\ UNCHANGED <<captions, capt, word_embed, next_h, t, steps>>
       ELSE IF score = Err
       THEN /\ SampleRaise("ValueError", IF first THEN 225 ELSE 233)
            /\ next_h' = nh
            /\ steps' = Append(steps, [x |-> x.idx, prev |-> prev, out |-> nh, emitted |-> <<>>])
            /\ UNCHANGED <<captions, capt, word_embed, t>>
       ELSE IF col >= max_length
       THEN /\ SampleRaise("IndexError", IF first THEN 227 ELSE 239)
            /\ next_h' = nh
            /\ steps' = Append(steps, [x |-> x.idx, prev |-> prev, out |-> nh, emitted |-> <<>>])
            /\ UNCHANGED <<captions, capt, word_embed, t>>
       ELSE \E output_word \in ArgmaxOutcomes(score) :
            /\ next_h' = nh
            /\ steps' = Append(steps, [x |-> x.idx, prev |-> prev, out |-> nh,
                                     emitted |-> output_word])
            /\ captions' = SetColumn(captions, col, output_word)
            /\ capt' = [shape |-> <<Len(captions)>>,
                        vals |-> [n \in 1..Len(captions) |-> captions'[n][col + 1]]]
            /\ word_embed' = word_embedding_forward(capt', p["W_embed"]).out
            /\ t' = col + 1
            /\ spc' = "loop"
            /\ UNCHANGED serr

SampleFirst ==
    /\ spc = "seeded"
    /\ DecodeStep(TRUE, 0)
    /\ UNCHANGED <<obj, init_args, init_err, self, lossCall, features, max_length, sample_h0>>

SampleLoop ==
    /\ spc = "loop"
    /\ LoopGoesOn
    /\ DecodeStep(FALSE, t)
    /\ UNCHANGED <<obj, init_args, init_err, self, lossCall, features, max_length, sample_h0>>

SampleReturn ==
    /\ spc = "loop"
    /\ ~LoopGoesOn
    /\ spc' = "returned"
    /\ UNCHANGED <<obj, init_args, init_err, self, lossCall, features, max_length, captions,
                   sample_h0, capt, word_embed, next_h, t, steps, serr>>

\* The caller drops the result (or the exception) of a finished call; the
\* tensors and caches of the call are discarded with it.
Finish ==
    /\ \/ lossCall.status \in {"returned", "raised"}
       \/ spc \in {"returned", "raised"}
    /\ lossCall' = NoLoss
    /\ SampleReset
    /\ UNCHANGED <<obj, init_args, init_err, self>>

\* The caller constructs the model, once.
New ==
    /\ obj = "none"
    /\ \E w \in Vocabularies, D \in InputDims, W \in WordvecDims, H \in HiddenDims,
          ct \in CellTypes : Construct(w, D, W, H, ct)

\* The caller invokes loss on a valid minibatch of the constructed model.
CallLoss ==
    /\ obj = "ok"
    /\ Idle
    /\ \E N \in BatchSizes, T \in CaptionLengths :
          \E caps \in CaptionBatches(N, T, self.vocab_size) : Loss(N, caps)

\* The caller invokes sample on a valid feature batch of the constructed model.
CallSample ==
    /\ obj = "ok"
    /\ Idle
    /\ \E N \in BatchSizes, ml \in MaxLengths : SampleCall(N, ml)

Next ==
    \/ Finish
    \/ CallSample
    \/ SampleFirst
    \/ SampleLoop
    \/ SampleReturn
    \/ CallLoss
    \/ New

Spec == Init /\ [][Next]_vars

\* ------------------------------------------------------------------------
\* Properties
\* ------------------------------------------------------------------------
LossDone == lossCall.status \in {"returned", "raised"}
SampleDone == spc \in {"returned", "raised"}

\* C1: loss on a model constructed with cell_type 'lstm' fails with
\* NotImplementedError, raised where the recurrent layer of the forward pass
\* is selected, and returns no (loss, grads) pair.
C1_LstmLossNotImplemented ==
    (obj = "ok" /\ self.cell_type = "lstm" /\ LossDone) =>
        /\ lossCall.status = "raised"
        /\ lossCall.exc = Exc("NotImplementedError", 138)
        /\ lossCall.grads = NoParams

\* C2: constructing with a cell_type outside {'rnn', 'lstm'} raises
\* ValueError before any parameter tensor is allocated: the parameter mapping
\* does not exist or is empty, and no model object is returned.
C2_InvalidCellTypeFailsFirst ==
    (obj # "none" /\ init_args.cell_type \notin {"rnn", "lstm"}) =>
        /\ obj = "failed"
        /\ init_err.type = "ValueError"
        /\ (~self.has_params \/ DOMAIN self.params = {})

C2_Witness ==
    /\ obj = "failed"
    /\ init_args.cell_type = "gru"
    /\ "<NULL>" \in DOMAIN init_args.word_to_idx

\* C3: on an 'rnn' model loss returns a gradient mapping with exactly the
\* eight parameter keys, no key left None, each gradient of the shape of the
\* parameter with the same key.
C3_GradsParallelToParams ==
    (obj = "ok" /\ self.cell_type = "rnn" /\ LossDone) =>
        /\ lossCall.status = "returned"
        /\ DOMAIN lossCall.grads = ParamKeys
        /\ DOMAIN lossCall.grads = DOMAIN self.params
        /\ \A k \in ParamKeys : /\ lossCall.grads[k] # NoneT
                                /\ lossCall.grads[k] = self.params[k]

C3_Witness ==
    /\ lossCall.status = "returned"
    /\ Len(lossCall.captions) = 2
    /\ self.params["W_proj"][1] # self.hidden_dim
    /\ self.params["Wx"][1] # self.hidden_dim
    /\ self.hidden_dim > 1
    /\ lossCall.grads["W_proj"] = <<self.params["W_proj"][1], self.hidden_dim>>

InRange(m, N, L, V) ==
    /\ Len(m) = N
    /\ \A n \in 1..N : /\ Len(m[n]) = L
                       /\ \A j \in 1..L : m[n][j] >= 0 /\ m[n][j] < V

\* C4: on an 'rnn' model whose vocabulary contains <START>, for every N >= 1,
\* D, W, H, V >= 1 and max_length >= 0, sample returns a matrix of shape
\* (N, max_length) whose entries lie in [0, V).
C4_SampleShapeAndRange ==
    (obj = "ok" /\ self.cell_type = "rnn" /\ self.start # None /\ SampleDone) =>
        /\ spc = "returned"
        /\ InRange(captions, features[1], max_length, self.vocab_size)

\* C5: sample does not stop on an emitted <END>: a call that returns has run
\* exactly max_length recurrent steps, and column t of the output holds the
\* token emitted at step t for every example, also after an emitted <END>.
C5_NoEarlyStop ==
    (spc = "returned" /\ max_length >= 1) =>
        /\ Len(steps) = max_length
        /\ Len(captions[1]) = max_length
        /\ \A k \in 1..max_length : \A n \in 1..Len(captions) :
               captions[n][k] = steps[k].emitted[n]

C5_Witness ==
    /\ spc = "returned"
    /\ max_length >= 2
    /\ self.end # None
    /\ self.end # self.null
    /\ \A n \in 1..Len(captions) : captions[n][1] = self.end
    /\ captions[1][2] # self.null

\* C6: decoding is autoregressive and ordered in time: step 0 consumes the
\* embedding of <START> and the projected initial hidden state; step t >= 1
\* consumes the embedding of the token the same example emitted at step t-1
\* and the hidden state step t-1 produced; the emitted token of step t fills
\* column t, so <START> fills no column.
C6_Autoregressive ==
    \A k \in 1..Len(steps) :
        /\ steps[k].x = (IF k = 1 THEN [n \in 1..features[1] |-> self.start]
                         ELSE steps[k - 1].emitted)
        /\ steps[k].prev = (IF k = 1 THEN sample_h0 ELSE steps[k - 1].out)
        /\ Len(steps[k].out.hist) = k
        /\ steps[k].emitted # <<>> =>
               \A n \in 1..features[1] : captions[n][k] = steps[k].emitted[n]
        /\ k = Len(steps) => next_h = steps[k].out

C6_Witness ==
    /\ Len(steps) >= 2
    /\ features[1] = 2
    /\ steps[1].emitted[1] # steps[1].emitted[2]
    /\ steps[2].x = steps[1].emitted
    /\ spc = "returned"

\* C7: a sample call on an 'lstm' model fails with an error: it never writes
\* an output column and never returns a caption matrix.
C7_LstmSampleFails ==
    (obj = "ok" /\ self.cell_type = "lstm") =>
        /\ spc \in {"idle", "seeded", "raised"}
        /\ spc # "idle" => captions = FullMatrix(self.null, features[1], max_length)

C7_Witness ==
    /\ self.cell_type = "lstm"
    /\ spc = "raised"
    /\ max_length >= 1
    /\ Len(steps) = 1
    /\ next_h.shape = <<features[1], 4 * self.hidden_dim>>

\* C8: loss feeds columns 0..T-2 of captions to the embedding layer and gives
\* columns 1..T-1 to the softmax loss as targets, and the mask has the shape
\* of the targets and is true exactly where the target is not <NULL>.
C8_CaptionOffsetAndMask ==
    LossDone =>
        LET c == lossCall.captions
            N == Len(c)
            T == Len(c[1])
        IN /\ Len(lossCall.captions_in) = N
           /\ Len(lossCall.captions_out) = N
           /\ Len(lossCall.mask) = N
           /\ \A n \in 1..N :
                 /\ Len(lossCall.captions_in[n]) = T - 1
                 /\ Len(lossCall.captions_out[n]) = T - 1
                 /\ Len(lossCall.mask[n]) = T - 1
                 /\ \A j \in 1..(T - 1) :
                       /\ lossCall.captions_in[n][j] = c[n][j]
                       /\ lossCall.captions_out[n][j] = c[n][j + 1]
                       /\ lossCall.mask[n][j] = (c[n][j + 1] # self.null)
           /\ lossCall.embed_x = lossCall.captions_in
           /\ lossCall.status = "returned" =>
                 /\ lossCall.softmax_y = lossCall.captions_out
                 /\ lossCall.softmax_mask = lossCall.mask

C8_Witness ==
    /\ lossCall.status = "returned"
    /\ Len(lossCall.captions) = 2
    /\ lossCall.captions[1][1] # lossCall.captions[1][2]
    /\ lossCall.captions[2][1] # lossCall.captions[2][2]
    /\ lossCall.mask[1][1] # lossCall.mask[2][1]
    /\ self.null # 0

Layers(log) == [i \in 1..Len(log) |-> log[i].layer]
IsForward(e) == e.dir = "forward"
IsBackward(e) == e.dir = "backward"

\* C9: in a loss call that returns, the backward operations run in the
\* reverse order of the forward operations, after all of them, and every
\* cache a forward operation produced is consumed exactly once, by the
\* backward operation of the same layer.
C9_BackwardMirrorsForward ==
    lossCall.status = "returned" =>
        LET log == lossCall.oplog
            fw == SelectSeq(log, IsForward)
            bw == SelectSeq(log, IsBackward)
        IN /\ log = fw \o bw
           /\ Layers(fw) = <<"proj", "embed", "rnn", "vocab", "softmax">>
           /\ Layers(bw) = <<"vocab", "rnn", "embed", "proj">>
           /\ \A i \in 1..Len(fw) : fw[i].made # "" =>
                 /\ Cardinality({j \in 1..Len(bw) : bw[j].used = fw[i].made}) = 1
                 /\ \A j \in 1..Len(bw) : bw[j].used = fw[i].made => bw[j].layer = fw[i].layer
           /\ \A j \in 1..Len(bw) : bw[j].used # "" =>
                 \E i \in 1..Len(fw) : fw[i].made = bw[j].used /\ fw[i].layer = bw[j].layer

C9_Witness ==
    /\ lossCall.status = "returned"
    /\ Len(lossCall.oplog) = 9
    /\ lossCall.oplog[3].made = "rnn_forward"
    /\ lossCall.oplog[7].used = "rnn_forward"

\* C10: a vocabulary with <NULL> and without <START> constructs a model whose
\* start index is absent, and every sample call on it raises when the seed
\* token is built, before any embedding lookup or recurrent step, returning
\* no caption matrix.
C10_NoStartSampleRaises ==
    (/\ obj # "none"
     /\ init_args.cell_type \in {"rnn", "lstm"}
     /\ "<NULL>" \in DOMAIN init_args.word_to_idx
     /\ "<START>" \notin DOMAIN init_args.word_to_idx) =>
        /\ obj = "ok"
        /\ self.start = None
        /\ spc # "idle" =>
              /\ spc = "raised"
              /\ serr = Exc("TypeError", 220)
              /\ word_embed = NoEmbed
              /\ steps = <<>>

C10_Witness ==
    /\ obj = "ok"
    /\ "<START>" \notin DOMAIN init_args.word_to_idx
    /\ spc = "raised"
    /\ max_length >= 1
====
